---------------------------- MODULE Spec2Model ----------------------------
(***************************************************************************)
(* Dispatch core of the taxi backend: the in-memory presence registries    *)
(* of server.js (onlineDrivers, driverSocketMap, driverLocations), the     *)
(* socket handlers acceptRide / declineRide, and the book-driver route     *)
(* with its response-window timer (routes/rides.js).                       *)
(*                                                                         *)
(* Two specifications share the variables:                                 *)
(*   Spec          the ride state machine: every await on the Ride store   *)
(*                 is a separate step, so handlers interleave between      *)
(*                 their findById and their save;                          *)
(*   SpecPresence  the presence registry and the proximity query.          *)
(***************************************************************************)
EXTENDS Integers, Sequences, FiniteSets, TLC

(***************************************************************************)
(* Finite universes and bounds                                             *)
(***************************************************************************)
Drivers == {"d1", "d2"}
Riders  == {"u1", "u2"}
Sockets == {"s1", "s2"}

\* number of book-driver requests (each creates one ride)
MaxRides == 1
\* number of acceptRide / declineRide / cancel / end invocations in flight at once
MaxCalls == 2

RideNames == <<"r1", "r2", "r3", "r4">>
RideIds == { RideNames[k] : k \in 1..MaxRides }

\* absent driver / socket / ride document (JS null or undefined)
NoDriver == "null"
NoSocket == "undefined"
NoRide   == "-"

VARIABLES
    gone,             \* sockets whose 'disconnect' fired (socket ids are never reused)
    onlineDrivers,    \* server.js:62  Set of driverIds
    driverSocketMap,  \* server.js:63  driverId -> socket.id, in insertion order
    driverLocations,  \* server.js:60  driverId -> {latitude, longitude}
    stale,            \* history: <<driverId, socket>>, the binding of a registered
                      \* driver that its latest driverOnline replaced
    rides,            \* the Ride collection: rideId -> document
    bookings,         \* POST /book-driver requests, the k-th creating ride RideNames[k]
    calls,            \* acceptRide / declineRide / cancel / end invocations
    timers,           \* setTimeout callbacks scheduled by book-driver
    applied,          \* per ride, the decisions saved and announced, in order
    activeRides,      \* server.js:61  rideId -> {driverId, riderId, status}
    joined,           \* socket.join: the <<socket, room>> memberships
    sent              \* the events emitted by the latest step

presenceVars == <<gone, onlineDrivers, driverSocketMap, driverLocations, stale>>
dispatchVars == <<rides, bookings, calls, timers, applied>>
sessionVars == <<activeRides, joined>>
vars == <<gone, onlineDrivers, driverSocketMap, driverLocations, stale,
          rides, bookings, calls, timers, applied, activeRides, joined, sent>>

(***************************************************************************)
(* Coordinates, in hundredths of a degree, and getDistanceKm in metres.    *)
(* Each entry is the formula of server.js:69-76 evaluated in IEEE doubles  *)
(* with the arguments in the order listed, rounded to the metre.           *)
(***************************************************************************)
Points == { <<0, 0>>, <<5991, 1075>>, <<5992, 1076>> }

\* variant: the distance of the second point from (0, 0)
getDistanceKm_FromOrigin(lat1, lon1, lat2, lon2) ==
    CASE <<lat2, lon2>> = <<0, 0>>       -> 0
      [] <<lat2, lon2>> = <<5991, 1075>> -> 6726286
      [] <<lat2, lon2>> = <<5992, 1076>> -> 6727492

getDistanceKm(lat1, lon1, lat2, lon2) ==
    LET ab == <<lat1, lon1, lat2, lon2>>
    IN  CASE ab = <<0, 0, 0, 0>>             -> 0
          [] ab = <<0, 0, 5991, 1075>>       -> 6726286
          [] ab = <<0, 0, 5992, 1076>>       -> 6727492
          [] ab = <<5991, 1075, 0, 0>>       -> 6726286
          [] ab = <<5991, 1075, 5991, 1075>> -> 0
          [] ab = <<5991, 1075, 5992, 1076>> -> 1244
          [] ab = <<5992, 1076, 0, 0>>       -> 6727492
          [] ab = <<5992, 1076, 5991, 1075>> -> 1244
          [] ab = <<5992, 1076, 5992, 1076>> -> 0

\* radiusKm = 5 when the payload has none (server.js:169), in metres
DefaultRadius == 5000

(***************************************************************************)
(* driverSocketMap is a plain object: a sequence of [driverId, socketId]   *)
(* entries in insertion order with no driverId twice.  Assigning an        *)
(* existing key keeps its place, delete removes the entry.                 *)
(***************************************************************************)
MapKeys(m) == { m[i].driverId : i \in 1..Len(m) }

MapGet(m, d) ==
    IF d \in MapKeys(m)
    THEN m[CHOOSE i \in 1..Len(m) : m[i].driverId = d].socketId
    ELSE NoSocket

\* variant: an existing binding is kept
MapSet_KeepsBinding(m, d, s) ==
    IF d \in MapKeys(m) THEN m ELSE Append(m, [driverId |-> d, socketId |-> s])

MapSet(m, d, s) ==
    IF d \in MapKeys(m)
    THEN [i \in 1..Len(m) |->
            IF m[i].driverId = d THEN [driverId |-> d, socketId |-> s] ELSE m[i]]
    ELSE Append(m, [driverId |-> d, socketId |-> s])

\* for (const [dId, sId] of Object.entries(driverSocketMap))
\*   if (sId === socket.id) { driverId = dId; break; }
DriverOfSocket(m, s) ==
    IF \E i \in 1..Len(m) : m[i].socketId = s
    THEN LET first == CHOOSE i \in 1..Len(m) :
                        /\ m[i].socketId = s
                        /\ \A j \in 1..(i - 1) : m[j].socketId # s
         IN  m[first].driverId
    ELSE NoDriver

\* variant: every key, whatever its value
DriversBoundTo_Everyone(m, s) == MapKeys(m)

\* the drivers a disconnect of s removes: every key whose value is s
DriversBoundTo(m, s) == { m[i].driverId : i \in {j \in 1..Len(m) : m[j].socketId = s} }

\* JS objects as functions on their key set
ObjSet(o, k, v) == [x \in DOMAIN o \cup {k} |-> IF x = k THEN v ELSE o[x]]
ObjDelete(o, ks) == [x \in DOMAIN o \ ks |-> o[x]]

(***************************************************************************)
(* Events.  to: the audience (io.emit: everyone; socket.emit or            *)
(* io.to(socketId): one socket; io.to(`ride_<id>`), io.to(`rider_<id>`):   *)
(* a room).  points: the driversUpdate / carLocationUpdate payload.        *)
(***************************************************************************)
ToAll        == [room |-> "all",    id |-> "*"]
ToSocket(s)  == [room |-> "socket", id |-> s]
ToRide(r)    == [room |-> "ride",   id |-> r]
ToRider(u)   == [room |-> "rider",  id |-> u]
ToHttp       == [room |-> "http",   id |-> "res"]

Event(name, to, r, d, pts) ==
    [event |-> name, to |-> to, rideId |-> r, driverId |-> d, points |-> pts]

NoPoints == << >>
RideEvent(name, to, r, d) == Event(name, to, r, d, NoPoints)
PointsEvent(name, to, pts) == Event(name, to, "-", "-", pts)

\* the sockets an emit reaches: io.emit reaches every connected socket, a
\* socket is alone in the room of its own id, any other room holds the
\* sockets that socket.join put there (server.js:115, 191)
Receivers(to) ==
    CASE to.room = "all"    -> Sockets \ gone
      [] to.room = "socket" -> {to.id} \ gone
      [] to.room = "http"   -> {}
      [] OTHER              -> { s \in Sockets \ gone : <<s, to>> \in joined }

(***************************************************************************)
(* Payloads are records that may lack fields: `x != null` is "x is a       *)
(* field", `!x` is "x is no field, or is 0".                               *)
(***************************************************************************)
\* variant: a coordinate component of 0 counts as absent
Has_Truthy(p, k) == k \in DOMAIN p /\ (k \in {"latitude", "longitude"} => p[k] # 0)

Has(p, k) == k \in DOMAIN p

DriverPayloads ==
    { [driverId |-> d] : d \in Drivers }
    \cup { [driverId |-> d, latitude |-> pt[1], longitude |-> pt[2]] :
              d \in Drivers, pt \in Points }
    \cup { [driverId |-> d, latitude |-> 0] : d \in Drivers }
    \cup { [latitude |-> 0, longitude |-> 0] }

QueryPayloads ==
    { [latitude |-> pt[1], longitude |-> pt[2]] : pt \in Points }
    \cup { [latitude |-> pt[1], longitude |-> pt[2], radiusKm |-> rad] :
                pt \in Points, rad \in {0, 1000} }
    \cup { [longitude |-> 0] }

(***************************************************************************)
(* Presence registry (server.js:78-226).  io.on('connection') only         *)
(* registers the handlers: a socket is live from its first event until     *)
(* its 'disconnect'.                                                       *)
(***************************************************************************)
Live(s) == s \notin gone

\* socket.on('driverOnline')
DriverOnline(s, p) ==
    /\ Live(s)
    /\ IF ~Has(p, "driverId")
       THEN /\ sent' = {}
            /\ UNCHANGED <<onlineDrivers, driverSocketMap, driverLocations, stale>>
       ELSE LET d == p.driverId IN
            /\ onlineDrivers' = onlineDrivers \cup {d}
            /\ driverSocketMap' = MapSet(driverSocketMap, d, s)
            /\ stale' = IF MapGet(driverSocketMap, d) \notin {NoSocket, s}
                        THEN { e \in stale : e[1] # d }
                                \cup { <<d, MapGet(driverSocketMap, d)>> }
                        ELSE stale
            /\ IF Has(p, "latitude") /\ Has(p, "longitude")
               THEN /\ driverLocations' = ObjSet(driverLocations, d,
                            [latitude |-> p.latitude, longitude |-> p.longitude])
                    /\ sent' = { PointsEvent("driversUpdate", ToAll,
                                    [x \in {d} |-> <<p.latitude, p.longitude>>]) }
               ELSE /\ UNCHANGED driverLocations
                    /\ sent' = IF d \in DOMAIN driverLocations
                               THEN { PointsEvent("driversUpdate", ToAll,
                                        [x \in {d} |-> <<driverLocations[d].latitude,
                                                         driverLocations[d].longitude>>]) }
                               ELSE {}
    /\ UNCHANGED gone
    /\ UNCHANGED dispatchVars
    /\ UNCHANGED sessionVars

\* variant: onlineDrivers keeps the drivers
RemoveDrivers_KeepsOnline(ds) ==
    /\ onlineDrivers' = onlineDrivers
    /\ driverLocations' = ObjDelete(driverLocations, ds)
    /\ driverSocketMap' =
          LET keep(e) == e.driverId \notin ds
          IN  SelectSeq(driverSocketMap, keep)
    /\ stale' = { e \in stale : e[1] \notin ds }

\* variant: driverLocations keeps the drivers' coordinates
RemoveDrivers_KeepsLocation(ds) ==
    /\ onlineDrivers' = onlineDrivers \ ds
    /\ driverLocations' = driverLocations
    /\ driverSocketMap' =
          LET keep(e) == e.driverId \notin ds
          IN  SelectSeq(driverSocketMap, keep)
    /\ stale' = { e \in stale : e[1] \notin ds }

\* onlineDrivers.delete(d); delete driverLocations[d]; delete driverSocketMap[d]
RemoveDrivers(ds) ==
    /\ onlineDrivers' = onlineDrivers \ ds
    /\ driverLocations' = ObjDelete(driverLocations, ds)
    /\ driverSocketMap' =
          LET keep(e) == e.driverId \notin ds
          IN  SelectSeq(driverSocketMap, keep)
    /\ stale' = { e \in stale : e[1] \notin ds }

\* socket.on('driverOffline')
DriverOffline(s, p) ==
    /\ Live(s)
    /\ IF ~Has(p, "driverId")
       THEN UNCHANGED <<onlineDrivers, driverSocketMap, driverLocations, stale>>
       ELSE RemoveDrivers({p.driverId})
    /\ sent' = {}
    /\ UNCHANGED gone
    /\ UNCHANGED dispatchVars
    /\ UNCHANGED sessionVars

\* variant: the sessions of d, whatever their status
SessionsInProgress_AnyStatus(d) ==
    { r \in DOMAIN activeRides : activeRides[r].driverId = d }

\* for (const rideId in activeRides): the sessions of d that are in progress
SessionsInProgress(d) ==
    { r \in DOMAIN activeRides :
        activeRides[r].driverId = d /\ activeRides[r].status = "in_progress" }

\* variant: the sender is registered before the coordinate is validated
DriverLocationUpdate_RegistersFirst(s, p) ==
    /\ Live(s)
    /\ IF ~Has(p, "driverId")
       THEN /\ sent' = {}
            /\ UNCHANGED <<onlineDrivers, driverSocketMap, driverLocations>>
       ELSE LET d == p.driverId IN
            /\ IF d \notin onlineDrivers
               THEN /\ onlineDrivers' = onlineDrivers \cup {d}
                    /\ driverSocketMap' = MapSet(driverSocketMap, d, s)
               ELSE UNCHANGED <<onlineDrivers, driverSocketMap>>
            /\ IF ~Has(p, "latitude") \/ ~Has(p, "longitude")
               THEN /\ sent' = {}
                    /\ UNCHANGED driverLocations
               ELSE /\ driverLocations' = ObjSet(driverLocations, d,
                            [latitude |-> p.latitude, longitude |-> p.longitude])
                    /\ sent' = { PointsEvent("driversUpdate", ToAll,
                                    [x \in {d} |-> <<p.latitude, p.longitude>>]) }
    /\ UNCHANGED <<gone, stale>>
    /\ UNCHANGED dispatchVars
    /\ UNCHANGED sessionVars

\* socket.on('driverLocationUpdate')
\* variant: the coordinate is stored, the driver is not registered
DriverLocationUpdate_StoresOnly(s, p) ==
    /\ Live(s)
    /\ IF ~Has(p, "driverId") \/ ~Has(p, "latitude") \/ ~Has(p, "longitude")
       THEN /\ sent' = {}
            /\ UNCHANGED driverLocations
       ELSE /\ driverLocations' = ObjSet(driverLocations, p.driverId,
                    [latitude |-> p.latitude, longitude |-> p.longitude])
            /\ sent' = { PointsEvent("driversUpdate", ToAll,
                            [x \in {p.driverId} |-> <<p.latitude, p.longitude>>]) }
    /\ UNCHANGED <<gone, stale, onlineDrivers, driverSocketMap>>
    /\ UNCHANGED dispatchVars
    /\ UNCHANGED sessionVars

DriverLocationUpdate(s, p) ==
    /\ Live(s)
    /\ IF ~Has(p, "driverId") \/ ~Has(p, "latitude") \/ ~Has(p, "longitude")
       THEN /\ sent' = {}
            /\ UNCHANGED <<onlineDrivers, driverSocketMap, driverLocations>>
       ELSE LET d == p.driverId IN
            /\ IF d \notin onlineDrivers
               THEN /\ onlineDrivers' = onlineDrivers \cup {d}
                    /\ driverSocketMap' = MapSet(driverSocketMap, d, s)
               ELSE UNCHANGED <<onlineDrivers, driverSocketMap>>
            /\ driverLocations' = ObjSet(driverLocations, d,
                    [latitude |-> p.latitude, longitude |-> p.longitude])
            /\ sent' = { PointsEvent("driversUpdate", ToAll,
                            [x \in {d} |-> <<p.latitude, p.longitude>>]) }
                       \cup { Event("carLocationUpdate", ToRide(r), "-", d,
                                    [x \in {d} |-> <<p.latitude, p.longitude>>]) :
                               r \in SessionsInProgress(d) }
    /\ UNCHANGED <<gone, stale>>
    /\ UNCHANGED dispatchVars
    /\ UNCHANGED sessionVars

\* the reply of requestNearbyDrivers (server.js:171-176), distances in metres
Nearby(lat, lon, radius) ==
    LET hits == { d \in DOMAIN driverLocations :
                    /\ d \in onlineDrivers
                    /\ getDistanceKm(lat, lon, driverLocations[d].latitude,
                                     driverLocations[d].longitude) <= radius }
    IN  [d \in hits |-> << driverLocations[d].latitude, driverLocations[d].longitude,
                           getDistanceKm(lat, lon, driverLocations[d].latitude,
                                         driverLocations[d].longitude) >>]

\* `!latitude`: undefined, null or 0
Falsy(p, k) == ~Has(p, k) \/ p[k] = 0

\* variant: the reply is broadcast
RequestNearbyDrivers_Broadcasts(s, p) ==
    /\ Live(s)
    /\ IF Falsy(p, "latitude") \/ Falsy(p, "longitude")
       THEN sent' = {}
       ELSE sent' = { PointsEvent("driversUpdate", ToAll,
                        Nearby(p.latitude, p.longitude,
                               IF Has(p, "radiusKm") THEN p.radiusKm ELSE DefaultRadius)) }
    /\ UNCHANGED presenceVars
    /\ UNCHANGED dispatchVars
    /\ UNCHANGED sessionVars

\* socket.on('requestNearbyDrivers')
RequestNearbyDrivers(s, p) ==
    /\ Live(s)
    /\ IF Falsy(p, "latitude") \/ Falsy(p, "longitude")
       THEN sent' = {}
       ELSE sent' = { PointsEvent("driversUpdate", ToSocket(s),
                        Nearby(p.latitude, p.longitude,
                               IF Has(p, "radiusKm") THEN p.radiusKm ELSE DefaultRadius)) }
    /\ UNCHANGED presenceVars
    /\ UNCHANGED dispatchVars
    /\ UNCHANGED sessionVars

\* the body of GET /api/drivers/nearby: every stored coordinate in range
NearbyRest(lat, lon, radius) ==
    LET hits == { d \in DOMAIN driverLocations :
                    getDistanceKm(lat, lon, driverLocations[d].latitude,
                                  driverLocations[d].longitude) <= radius }
    IN  [d \in hits |-> << driverLocations[d].latitude, driverLocations[d].longitude,
                           getDistanceKm(lat, lon, driverLocations[d].latitude,
                                         driverLocations[d].longitude) >>]

\* app.get('/api/drivers/nearby'); q holds the parsed query parameters, a
\* parameter that is absent parses to NaN; `parseFloat(..) || 5`
GetDriversNearby(q) ==
    /\ IF ~Has(q, "latitude") \/ ~Has(q, "longitude")
       THEN sent' = { PointsEvent("400", ToHttp, NoPoints) }
       ELSE sent' = { PointsEvent("200", ToHttp,
                        NearbyRest(q.latitude, q.longitude,
                                   IF Falsy(q, "radiusKm") THEN DefaultRadius
                                   ELSE q.radiusKm)) }
    /\ UNCHANGED presenceVars
    /\ UNCHANGED dispatchVars
    /\ UNCHANGED sessionVars

\* app.get('/api/debug/driverLocations'): res.json(driverLocations)
GetDebugDriverLocations ==
    /\ sent' = { PointsEvent("driverLocations", ToHttp,
                     [d \in DOMAIN driverLocations |->
                        <<driverLocations[d].latitude, driverLocations[d].longitude>>]) }
    /\ UNCHANGED presenceVars
    /\ UNCHANGED dispatchVars
    /\ UNCHANGED sessionVars

(***************************************************************************)
(* Ride sessions (server.js:186-214): activeRides and the ride rooms.      *)
(***************************************************************************)
\* variant: the room is joined, nothing is replayed
JoinRide_NoReplay(s, r) ==
    /\ Live(s)
    /\ joined' = joined \cup { <<s, ToRide(r)>> }
    /\ sent' = {}
    /\ UNCHANGED activeRides
    /\ UNCHANGED presenceVars
    /\ UNCHANGED dispatchVars

RiderPayloads == { [riderId |-> "u1"], << >> }

\* socket.on('riderOnline'): `if (!riderId) return;` socket.join(`rider_<id>`)
RiderOnline(s, p) ==
    /\ Live(s)
    /\ joined' = IF Has(p, "riderId") THEN joined \cup { <<s, ToRider(p.riderId)>> }
                 ELSE joined
    /\ sent' = {}
    /\ UNCHANGED activeRides
    /\ UNCHANGED presenceVars
    /\ UNCHANGED dispatchVars

\* socket.on('joinRide'): join the room; replay the driver's position
JoinRide(s, r) ==
    /\ Live(s)
    /\ joined' = joined \cup { <<s, ToRide(r)>> }
    /\ sent' = IF r \in DOMAIN activeRides
                  /\ activeRides[r].driverId \in DOMAIN driverLocations
               THEN LET d == activeRides[r].driverId IN
                    { Event("carLocationUpdate", ToSocket(s), "-", d,
                            [x \in {d} |-> <<driverLocations[d].latitude,
                                             driverLocations[d].longitude>>]) }
               ELSE {}
    /\ UNCHANGED activeRides
    /\ UNCHANGED presenceVars
    /\ UNCHANGED dispatchVars

\* socket.on('startRide'): the payload names the ride, the driver and the rider
StartRide(s, r, d, u) ==
    /\ Live(s)
    /\ activeRides' = ObjSet(activeRides, r,
                            [driverId |-> d, riderId |-> u, status |-> "in_progress"])
    /\ sent' = { RideEvent("rideStarted", ToRide(r), r, d) }
    /\ UNCHANGED joined
    /\ UNCHANGED presenceVars
    /\ UNCHANGED dispatchVars

\* variant: the entry is removed
EndRide_DeletesEntry(s, r) ==
    /\ Live(s)
    /\ activeRides' = ObjDelete(activeRides, {r})
    /\ sent' = { RideEvent("rideEnded", ToRide(r), r, "-") }
    /\ UNCHANGED joined
    /\ UNCHANGED presenceVars
    /\ UNCHANGED dispatchVars

\* socket.on('endRide')
EndRide(s, r) ==
    /\ Live(s)
    /\ activeRides' = IF r \in DOMAIN activeRides
                      THEN [activeRides EXCEPT ![r].status = "completed"]
                      ELSE activeRides
    /\ sent' = { RideEvent("rideEnded", ToRide(r), r, "-") }
    /\ UNCHANGED joined
    /\ UNCHANGED presenceVars
    /\ UNCHANGED dispatchVars

\* socket.on('disconnect')
Disconnect(s) ==
    /\ Live(s)
    /\ gone' = gone \cup {s}
    /\ RemoveDrivers(DriversBoundTo(driverSocketMap, s))
    /\ sent' = {}
    /\ UNCHANGED dispatchVars
    /\ UNCHANGED sessionVars

(***************************************************************************)
(* The Ride collection (models/Ride.js) as the handlers use it:            *)
(* findById returns a snapshot of the stored document, the handler         *)
(* assigns to that in-memory copy, and save() writes the modified paths    *)
(* only ($set of a changed field, $push of the pushed elements).           *)
(***************************************************************************)
\* status: { type: String, enum: [...], default: 'open' }
RideStatusEnum == {"open", "accepted", "completed", "cancelled"}

NoDoc == [status |-> "none", assignedDriver |-> NoDriver,
          declinedDrivers |-> << >>, rider |-> "-"]

FindById(r) == IF r \in DOMAIN rides THEN rides[r] ELSE NoDoc

Elems(seq) == { seq[i] : i \in 1..Len(seq) }

\* new Ride({ rider, assignedDriver: driverId, status: 'pending', ... })
BookedDoc(u, d) == [status |-> "pending", assignedDriver |-> d,
                    declinedDrivers |-> << >>, rider |-> u]

\* ride.status = 'accepted'
AcceptedDoc(doc) == [doc EXCEPT !.status = "accepted"]

\* variant: assignedDriver is kept
DeclinedDoc_KeepsDriver(doc, d) ==
    [doc EXCEPT !.status = "open",
                !.declinedDrivers = IF d \in Elems(@) THEN @ ELSE Append(@, d)]

\* status = 'open'; push driverId unless found; assignedDriver = null
DeclinedDoc(doc, d) ==
    [doc EXCEPT !.status = "open",
                !.declinedDrivers = IF d \in Elems(@) THEN @ ELSE Append(@, d),
                !.assignedDriver = NoDriver]

\* ride.status = 'cancelled'
CancelledDoc(doc) == [doc EXCEPT !.status = "cancelled"]

\* ride.status = 'completed'
CompletedDoc(doc) == [doc EXCEPT !.status = "completed"]

\* await doc.save() of a document read as snap and changed to doc
SaveDoc(stored, snap, doc) ==
    [status          |-> IF doc.status # snap.status THEN doc.status ELSE stored.status,
     assignedDriver  |-> IF doc.assignedDriver # snap.assignedDriver
                         THEN doc.assignedDriver ELSE stored.assignedDriver,
     declinedDrivers |-> stored.declinedDrivers \o
                         SubSeq(doc.declinedDrivers, Len(snap.declinedDrivers) + 1,
                                Len(doc.declinedDrivers)),
     rider           |-> stored.rider]

Persist(r, snap, doc) == rides' = [rides EXCEPT ![r] = SaveDoc(rides[r], snap, doc)]

(***************************************************************************)
(* Handler invocations in flight: MaxCalls slots, a new invocation takes   *)
(* the lowest idle one and frees it when the handler returns.              *)
(* pc: "find" (findById awaited), "save" (save awaited).  driverId is the  *)
(* driver resolved from the socket (req.user._id for a REST request),      *)
(* snap the document findById returned.                                    *)
(***************************************************************************)
Call(kind, s, who, r, pc, snap) ==
    [kind |-> kind, socket |-> s, driverId |-> who, ride |-> r, pc |-> pc, snap |-> snap]

Idle == Call("idle", NoSocket, NoDriver, NoRide, "idle", NoDoc)

Slots == 1..MaxCalls

FreeSlot(c) ==
    /\ c \in Slots
    /\ calls[c] = Idle
    /\ \A j \in 1..(c - 1) : calls[j] # Idle

Running(c, kind, pc) ==
    /\ c \in Slots
    /\ calls[c].kind = kind
    /\ calls[c].pc = pc

Begin(c, call) == calls' = [calls EXCEPT ![c] = call]
Await(c, snap) == calls' = [calls EXCEPT ![c].pc = "save", ![c].snap = snap]
Return(c) == calls' = [calls EXCEPT ![c] = Idle]

\* the decision kind saved and announced for ride r
Applied(r, kind) == applied' = [applied EXCEPT ![r] = Append(@, kind)]

\* variant: the status alone
AcceptGuard_StatusOnly(doc, d) == doc.status = "pending"

\* the guard of acceptRide (server.js:243)
AcceptGuard(doc, d) == doc.status = "pending" /\ doc.assignedDriver = d

\* the guard of declineRide (server.js:279)
DeclineGuard(doc, d) == doc.status = "pending"

\* variant: any ride that is found
TimeoutGuard_Found(doc) == doc # NoDoc

\* the guard of the timeout callback: fresh && fresh.status === 'pending'
TimeoutGuard(doc) == doc # NoDoc /\ doc.status = "pending"

(***************************************************************************)
(* socket.on('acceptRide') (server.js:229-264)                             *)
(***************************************************************************)
\* the reverse lookup; `if (!driverId) return;`; findById is issued
AcceptRideStart(s, r) ==
    /\ Live(s)
    /\ LET d == DriverOfSocket(driverSocketMap, s) IN
       IF d = NoDriver
       THEN UNCHANGED calls
       ELSE \E c \in Slots : FreeSlot(c) /\ Begin(c, Call("acceptRide", s, d, r, "find", NoDoc))
    /\ sent' = {}
    /\ UNCHANGED <<rides, bookings, timers, applied>>
    /\ UNCHANGED presenceVars
    /\ UNCHANGED sessionVars

\* findById resolves; `if (!ride) return;` and the guard; save is issued
AcceptRideFound(c) ==
    /\ Running(c, "acceptRide", "find")
    /\ LET doc == FindById(calls[c].ride) IN
       IF doc # NoDoc /\ AcceptGuard(doc, calls[c].driverId)
       THEN Await(c, doc)
       ELSE Return(c)
    /\ sent' = {}
    /\ UNCHANGED <<rides, bookings, timers, applied>>
    /\ UNCHANGED presenceVars
    /\ UNCHANGED sessionVars

\* save resolves; the two emits
AcceptRideSaved(c) ==
    /\ Running(c, "acceptRide", "save")
    /\ LET r == calls[c].ride
           snap == calls[c].snap
       IN  /\ Persist(r, snap, AcceptedDoc(snap))
           /\ sent' = { RideEvent("rideAccepted", ToRide(r), r, calls[c].driverId),
                        RideEvent("rideAccepted", ToRider(snap.rider), r, calls[c].driverId) }
           /\ Applied(r, "acceptRide")
    /\ Return(c)
    /\ UNCHANGED <<bookings, timers>>
    /\ UNCHANGED presenceVars
    /\ UNCHANGED sessionVars

(***************************************************************************)
(* socket.on('declineRide') (server.js:267-295)                            *)
(***************************************************************************)
DeclineRideStart(s, r) ==
    /\ Live(s)
    /\ LET d == DriverOfSocket(driverSocketMap, s) IN
       IF d = NoDriver
       THEN UNCHANGED calls
       ELSE \E c \in Slots : FreeSlot(c) /\ Begin(c, Call("declineRide", s, d, r, "find", NoDoc))
    /\ sent' = {}
    /\ UNCHANGED <<rides, bookings, timers, applied>>
    /\ UNCHANGED presenceVars
    /\ UNCHANGED sessionVars

DeclineRideFound(c) ==
    /\ Running(c, "declineRide", "find")
    /\ LET doc == FindById(calls[c].ride) IN
       IF doc # NoDoc /\ DeclineGuard(doc, calls[c].driverId)
       THEN Await(c, doc)
       ELSE Return(c)
    /\ sent' = {}
    /\ UNCHANGED <<rides, bookings, timers, applied>>
    /\ UNCHANGED presenceVars
    /\ UNCHANGED sessionVars

DeclineRideSaved(c) ==
    /\ Running(c, "declineRide", "save")
    /\ LET r == calls[c].ride
           snap == calls[c].snap
       IN  /\ Persist(r, snap, DeclinedDoc(snap, calls[c].driverId))
           /\ sent' = { RideEvent("rideDeclined", ToRide(r), r, calls[c].driverId),
                        RideEvent("rideDeclineAck", ToSocket(calls[c].socket), r, "-") }
           /\ Applied(r, "declineRide")
    /\ Return(c)
    /\ UNCHANGED <<bookings, timers>>
    /\ UNCHANGED presenceVars
    /\ UNCHANGED sessionVars

\* findById or save rejects: the handler's catch block logs and returns
CallStoreError(c) ==
    /\ c \in Slots
    /\ calls[c].pc \in {"find", "save"}
    /\ Return(c)
    /\ sent' = {}
    /\ UNCHANGED <<rides, bookings, timers, applied>>
    /\ UNCHANGED presenceVars
    /\ UNCHANGED sessionVars

(***************************************************************************)
(* router.post('/:id/cancel') and router.post('/:id/end') (routes/rides.js)*)
(* who is req.user._id; the role check, findById and the guards are one    *)
(* step, a request that is answered 4xx leaves nothing behind.             *)
(***************************************************************************)
ToDriverRoom(d) == [room |-> "driver", id |-> d]

CancelGuard(doc, who) ==
    /\ who \in Riders
    /\ doc # NoDoc
    /\ doc.rider = who
    /\ doc.status = "pending"

RestCancelFound(who, r) ==
    /\ LET doc == FindById(r) IN
       IF CancelGuard(doc, who)
       THEN \E c \in Slots : FreeSlot(c) /\ Begin(c, Call("cancel", NoSocket, who, r, "save", doc))
       ELSE UNCHANGED calls
    /\ sent' = {}
    /\ UNCHANGED <<rides, bookings, timers, applied>>
    /\ UNCHANGED presenceVars
    /\ UNCHANGED sessionVars

RestCancelSaved(c) ==
    /\ Running(c, "cancel", "save")
    /\ LET r == calls[c].ride
           snap == calls[c].snap
       IN  /\ Persist(r, snap, CancelledDoc(snap))
           /\ sent' = IF snap.assignedDriver # NoDriver
                      THEN { RideEvent("rideCancelled", ToDriverRoom(snap.assignedDriver), r, "-") }
                      ELSE {}
           /\ Applied(r, "cancel")
    /\ Return(c)
    /\ UNCHANGED <<bookings, timers>>
    /\ UNCHANGED presenceVars
    /\ UNCHANGED sessionVars

\* ride.assignedDriver.toString() of a null assignedDriver throws: 500
EndGuard(doc, who) ==
    /\ who \in Drivers
    /\ doc # NoDoc
    /\ doc.assignedDriver # NoDriver
    /\ doc.assignedDriver = who
    /\ doc.status \in {"in_progress", "accepted"}

RestEndFound(who, r) ==
    /\ LET doc == FindById(r) IN
       IF EndGuard(doc, who)
       THEN \E c \in Slots : FreeSlot(c) /\ Begin(c, Call("end", NoSocket, who, r, "save", doc))
       ELSE UNCHANGED calls
    /\ sent' = {}
    /\ UNCHANGED <<rides, bookings, timers, applied>>
    /\ UNCHANGED presenceVars
    /\ UNCHANGED sessionVars

RestEndSaved(c) ==
    /\ Running(c, "end", "save")
    /\ LET r == calls[c].ride
           snap == calls[c].snap
       IN  /\ Persist(r, snap, CompletedDoc(snap))
           /\ sent' = { RideEvent("rideEnded", ToRider(snap.rider), r, "-") }
           /\ Applied(r, "end")
    /\ Return(c)
    /\ UNCHANGED <<bookings, timers>>
    /\ UNCHANGED presenceVars
    /\ UNCHANGED sessionVars

(***************************************************************************)
(* router.post('/:id/accept'), router.post('/:id/decline') and             *)
(* router.get('/available') (routes/rides.js): the open-ride pool.         *)
(***************************************************************************)
\* ride.status = 'accepted'; ride.assignedDriver = req.user._id
RestAcceptedDoc(doc, who) == [doc EXCEPT !.status = "accepted", !.assignedDriver = who]

\* ride.declinedDrivers.push(req.user._id)
RestDeclinedDoc(doc, who) == [doc EXCEPT !.declinedDrivers = Append(@, who)]

\* role check; `if (!ride || ride.status !== 'open')`: 400
RestOpenGuard(doc, who) ==
    /\ who \in Drivers
    /\ doc # NoDoc
    /\ doc.status = "open"

\* 403 for a non-driver, 400 'Ride not available' when the guard fails
RestAcceptFound(who, r) ==
    /\ LET doc == FindById(r) IN
       IF RestOpenGuard(doc, who)
       THEN /\ \E c \in Slots : FreeSlot(c)
                    /\ Begin(c, Call("restAccept", NoSocket, who, r, "save", doc))
            /\ sent' = {}
       ELSE /\ UNCHANGED calls
            /\ sent' = { RideEvent(IF who \in Drivers THEN "400" ELSE "403", ToHttp, r, who) }
    /\ UNCHANGED <<rides, bookings, timers, applied>>
    /\ UNCHANGED presenceVars
    /\ UNCHANGED sessionVars

\* save resolves; the rider is told by e-mail, no socket event; res.json({ ride })
RestAcceptSaved(c) ==
    /\ Running(c, "restAccept", "save")
    /\ LET r == calls[c].ride
           snap == calls[c].snap
       IN  /\ Persist(r, snap, RestAcceptedDoc(snap, calls[c].driverId))
           /\ Applied(r, "restAccept")
           /\ sent' = { RideEvent("200", ToHttp, r, calls[c].driverId) }
    /\ Return(c)
    /\ UNCHANGED <<bookings, timers>>
    /\ UNCHANGED presenceVars
    /\ UNCHANGED sessionVars

\* the push and the save happen only if the driver is not found in the list
RestDeclineFound(who, r) ==
    /\ LET doc == FindById(r) IN
       IF RestOpenGuard(doc, who) /\ who \notin Elems(doc.declinedDrivers)
       THEN \E c \in Slots : FreeSlot(c) /\ Begin(c, Call("restDecline", NoSocket, who, r, "save", doc))
       ELSE UNCHANGED calls
    /\ sent' = {}
    /\ UNCHANGED <<rides, bookings, timers, applied>>
    /\ UNCHANGED presenceVars
    /\ UNCHANGED sessionVars

RestDeclineSaved(c) ==
    /\ Running(c, "restDecline", "save")
    /\ LET r == calls[c].ride
           snap == calls[c].snap
       IN  /\ Persist(r, snap, RestDeclinedDoc(snap, calls[c].driverId))
           /\ Applied(r, "restDecline")
    /\ sent' = {}
    /\ Return(c)
    /\ UNCHANGED <<bookings, timers>>
    /\ UNCHANGED presenceVars
    /\ UNCHANGED sessionVars

\* variant: every open ride
Available_EveryOpen(who) == { r \in DOMAIN rides : rides[r].status = "open" }

\* { status: 'open', $or: [ { declinedDrivers: { $exists: false } },
\*                          { declinedDrivers: { $nin: [req.user._id] } } ] }
Available(who) ==
    { r \in DOMAIN rides : /\ rides[r].status = "open"
                           /\ who \notin Elems(rides[r].declinedDrivers) }

\* router.get('/available') without the distance filter: the reply lists
\* the matching rides (here with their status); 403 for a non-driver
GetAvailable(who) ==
    /\ IF who \in Drivers
       THEN sent' = { Event("rides", ToHttp, "-", who,
                            [r \in Available(who) |-> rides[r].status]) }
       ELSE sent' = { Event("403", ToHttp, "-", who, NoPoints) }
    /\ UNCHANGED dispatchVars
    /\ UNCHANGED presenceVars
    /\ UNCHANGED sessionVars

(***************************************************************************)
(* app.post('/webhook'), case 'payment_intent.succeeded' (server.js:316-   *)
(* 357): the signature is verified and the response sent at once; the      *)
(* async block looks the ride of metadata.rideId up, marks it paid and     *)
(* notifies.  paymentStatus and transactionId are not fields of the        *)
(* modelled document, so its save leaves the modelled fields as stored.    *)
(***************************************************************************)
WebhookStart(r) ==
    /\ \E c \in Slots : FreeSlot(c)
                         /\ Begin(c, Call("webhook", NoSocket, NoDriver, r, "find", NoDoc))
    /\ sent' = {}
    /\ UNCHANGED <<rides, bookings, timers, applied>>
    /\ UNCHANGED presenceVars
    /\ UNCHANGED sessionVars

\* findById(...).populate(...) resolves; `if (ride)`; save is issued
WebhookFound(c) ==
    /\ Running(c, "webhook", "find")
    /\ LET doc == FindById(calls[c].ride) IN
       IF doc # NoDoc THEN Await(c, doc) ELSE Return(c)
    /\ sent' = {}
    /\ UNCHANGED <<rides, bookings, timers, applied>>
    /\ UNCHANGED presenceVars
    /\ UNCHANGED sessionVars

\* save resolves; `if (ride.assignedDriver && ride.rider)` the two emits
WebhookSaved(c) ==
    /\ Running(c, "webhook", "save")
    /\ LET r == calls[c].ride
           snap == calls[c].snap
           d == snap.assignedDriver
       IN  /\ Persist(r, snap, snap)
           /\ sent' = IF d = NoDriver THEN {}
                      ELSE (IF MapGet(driverSocketMap, d) # NoSocket
                            THEN { RideEvent("rideStarted",
                                             ToSocket(MapGet(driverSocketMap, d)), r, d) }
                            ELSE {})
                           \cup { RideEvent("rideStarted", ToRide(r), r, d) }
    /\ Return(c)
    /\ UNCHANGED <<bookings, timers, applied>>
    /\ UNCHANGED presenceVars
    /\ UNCHANGED sessionVars

(***************************************************************************)
(* router.post('/book-driver') (routes/rides.js) and its timeout callback. *)
(* The k-th request that passes the checks creates ride RideNames[k].      *)
(* pc of a request: "save" (ride.save() awaited), "notify" (saved, before  *)
(* driverSocketMap is read), "emit" (driverSock captured, User.findById    *)
(* awaited), "done".  response is the HTTP status.  pc of a timer:         *)
(* "scheduled", "save" (fresh.save() awaited), then how it returned.       *)
(***************************************************************************)
Booking(u, d, pc, sock, response) ==
    [rider |-> u, driverId |-> d, pc |-> pc, driverSock |-> sock, response |-> response]

Timer(r, d, sock, pc, snap) ==
    [ride |-> r, driverId |-> d, driverSock |-> sock, pc |-> pc, snap |-> snap]

BookingAt(b, pc) ==
    /\ b \in 1..Len(bookings)
    /\ bookings[b].pc = pc

\* role check (403), driverId check and User.findById(driverId) (400), new Ride(...)
BookDriverRequest(u, d) ==
    /\ Len(bookings) < MaxRides
    /\ IF u \in Riders /\ d \in Drivers
       THEN bookings' = Append(bookings, Booking(u, d, "save", NoSocket, 0))
       ELSE UNCHANGED bookings
    /\ sent' = {}
    /\ UNCHANGED <<rides, calls, timers, applied>>
    /\ UNCHANGED presenceVars
    /\ UNCHANGED sessionVars

\* await ride.save() resolves: the document is stored as constructed, with
\* the status the route wrote (compare RideStatusEnum, what the schema lists)
BookDriverSaved(b) ==
    /\ BookingAt(b, "save")
    /\ rides' = ObjSet(rides, RideNames[b], BookedDoc(bookings[b].rider, bookings[b].driverId))
    /\ bookings' = [bookings EXCEPT ![b].pc = "notify"]
    /\ sent' = {}
    /\ UNCHANGED <<calls, timers, applied>>
    /\ UNCHANGED presenceVars
    /\ UNCHANGED sessionVars

\* await ride.save() rejects: res.status(500), nothing stored
BookDriverSaveFailed(b) ==
    /\ BookingAt(b, "save")
    /\ bookings' = [bookings EXCEPT ![b].pc = "done", ![b].response = 500]
    /\ sent' = {}
    /\ UNCHANGED <<rides, calls, timers, applied>>
    /\ UNCHANGED presenceVars
    /\ UNCHANGED sessionVars

\* const driverSock = driverSocketMap && driverSocketMap[driverId];
BookDriverCapture(b) ==
    /\ BookingAt(b, "notify")
    /\ bookings' = [bookings EXCEPT ![b].pc = "emit",
                      ![b].driverSock = MapGet(driverSocketMap, bookings[b].driverId)]
    /\ sent' = {}
    /\ UNCHANGED <<rides, calls, timers, applied>>
    /\ UNCHANGED presenceVars
    /\ UNCHANGED sessionVars

\* if (io && driverSock) emit rideRequest; setTimeout(..., 60000); res.json
BookDriverEmit(b) ==
    /\ BookingAt(b, "emit")
    /\ sent' = IF bookings[b].driverSock # NoSocket
               THEN { RideEvent("rideRequest", ToSocket(bookings[b].driverSock),
                                RideNames[b], bookings[b].driverId) }
               ELSE {}
    /\ timers' = Append(timers, Timer(RideNames[b], bookings[b].driverId,
                                      bookings[b].driverSock, "scheduled", NoDoc))
    /\ bookings' = [bookings EXCEPT ![b].pc = "done", ![b].response = 200]
    /\ UNCHANGED <<rides, calls, applied>>
    /\ UNCHANGED presenceVars
    /\ UNCHANGED sessionVars

\* User.findById(ride.rider) rejects inside the try: caught, no emit, no timer
BookDriverEmitFailed(b) ==
    /\ BookingAt(b, "emit")
    /\ bookings' = [bookings EXCEPT ![b].pc = "done", ![b].response = 200]
    /\ sent' = {}
    /\ UNCHANGED <<rides, calls, timers, applied>>
    /\ UNCHANGED presenceVars
    /\ UNCHANGED sessionVars

\* new Ride({ rider, ... }) of router.post('/'): status takes the schema
\* default 'open', there is no assigned driver
CreatedDoc(u) == [status |-> "open", assignedDriver |-> NoDriver,
                  declinedDrivers |-> << >>, rider |-> u]

\* router.post('/'): role check (403), new Ride(...), save is issued
CreateRideRequest(u) ==
    /\ Len(bookings) < MaxRides
    /\ IF u \in Riders
       THEN bookings' = Append(bookings, Booking(u, NoDriver, "create", NoSocket, 0))
       ELSE UNCHANGED bookings
    /\ sent' = {}
    /\ UNCHANGED <<rides, calls, timers, applied>>
    /\ UNCHANGED presenceVars
    /\ UNCHANGED sessionVars

\* await ride.save() resolves; res.json({ ride })
CreateRideSaved(b) ==
    /\ BookingAt(b, "create")
    /\ rides' = ObjSet(rides, RideNames[b], CreatedDoc(bookings[b].rider))
    /\ bookings' = [bookings EXCEPT ![b].pc = "done", ![b].response = 200]
    /\ sent' = {}
    /\ UNCHANGED <<calls, timers, applied>>
    /\ UNCHANGED presenceVars
    /\ UNCHANGED sessionVars

TimerAt(t, pc) ==
    /\ t \in 1..Len(timers)
    /\ timers[t].pc = pc

\* the callback returns: "noop" (the guard failed), "applied", "error"
TimerDone(t, how) == timers' = [timers EXCEPT ![t].pc = how, ![t].snap = NoDoc]

\* the callback runs: const fresh = await Ride.findById(ride._id); the guard
TimerFire(t) ==
    /\ TimerAt(t, "scheduled")
    /\ LET doc == FindById(timers[t].ride) IN
       IF TimeoutGuard(doc)
       THEN timers' = [timers EXCEPT ![t].pc = "save", ![t].snap = doc]
       ELSE TimerDone(t, "noop")
    /\ sent' = {}
    /\ UNCHANGED <<rides, bookings, calls, applied>>
    /\ UNCHANGED presenceVars
    /\ UNCHANGED sessionVars

\* await fresh.save() resolves; the two emits
TimerSaved(t) ==
    /\ TimerAt(t, "save")
    /\ LET r == timers[t].ride
           snap == timers[t].snap
       IN  /\ Persist(r, snap, DeclinedDoc(snap, timers[t].driverId))
           /\ sent' = (IF timers[t].driverSock # NoSocket
                       THEN { RideEvent("rideRequestTimeout",
                                        ToSocket(timers[t].driverSock), r, "-") }
                       ELSE {})
                      \cup { RideEvent("rideDeclined", ToRide(r), r, timers[t].driverId) }
           /\ Applied(r, "timer")
    /\ TimerDone(t, "applied")
    /\ UNCHANGED <<bookings, calls>>
    /\ UNCHANGED presenceVars
    /\ UNCHANGED sessionVars

\* variant: the notifications go out although the store call rejected
TimerStoreError_Announces(t) ==
    /\ t \in 1..Len(timers)
    /\ timers[t].pc \in {"scheduled", "save"}
    /\ TimerDone(t, "error")
    /\ sent' = { RideEvent("rideDeclined", ToRide(timers[t].ride), timers[t].ride,
                           timers[t].driverId) }
    /\ UNCHANGED <<rides, bookings, calls, applied>>
    /\ UNCHANGED presenceVars
    /\ UNCHANGED sessionVars

\* findById or save rejects: catch (timeoutErr)
TimerStoreError(t) ==
    /\ t \in 1..Len(timers)
    /\ timers[t].pc \in {"scheduled", "save"}
    /\ TimerDone(t, "error")
    /\ sent' = {}
    /\ UNCHANGED <<rides, bookings, calls, applied>>
    /\ UNCHANGED presenceVars
    /\ UNCHANGED sessionVars

InitPresence ==
    /\ gone = {}
    /\ onlineDrivers = {}
    /\ driverSocketMap = << >>
    /\ driverLocations = << >>
    /\ stale = {}

InitDispatch ==
    /\ rides = << >>
    /\ bookings = << >>
    /\ calls = [c \in Slots |-> Idle]
    /\ timers = << >>
    /\ applied = [r \in RideIds |-> << >>]
    /\ sent = {}

InitSession ==
    /\ activeRides = << >>
    /\ joined = {}

Init == InitPresence /\ InitDispatch /\ InitSession

NextPresence ==
    \/ \E s \in Sockets, p \in DriverPayloads : DriverOnline(s, p)
    \/ \E s \in Sockets, p \in DriverPayloads : DriverOffline(s, p)
    \/ \E s \in Sockets, p \in DriverPayloads : DriverLocationUpdate(s, p)
    \/ \E s \in Sockets, p \in QueryPayloads : RequestNearbyDrivers(s, p)
    \/ \E q \in QueryPayloads : GetDriversNearby(q)
    \/ GetDebugDriverLocations
    \/ \E s \in Sockets : Disconnect(s)

SpecPresence == Init /\ [][NextPresence]_vars

(***************************************************************************)
(* The ride state machine.  Presence events bind drivers to sockets; the   *)
(* coordinates play no part here, so the payloads carry none.              *)
(***************************************************************************)
\* who announces on which socket: d1 on s1; d2 on its own socket s2 or,
\* sharing it with d1, on s1
DispatchAnnouncements == { <<"s1", "d1">>, <<"s2", "d2">>, <<"s1", "d2">> }

Next ==
    \/ \E a \in DispatchAnnouncements : DriverOnline(a[1], [driverId |-> a[2]])
    \/ \E u \in {"u1", "d1"}, d \in {"d1", "u1"} : BookDriverRequest(u, d)
    \/ \E b \in 1..MaxRides : BookDriverSaved(b)
    \/ \E b \in 1..MaxRides : BookDriverSaveFailed(b)
    \/ \E b \in 1..MaxRides : BookDriverCapture(b)
    \/ \E b \in 1..MaxRides : BookDriverEmit(b)
    \/ \E b \in 1..MaxRides : BookDriverEmitFailed(b)
    \/ \E t \in 1..MaxRides : TimerFire(t)
    \/ \E t \in 1..MaxRides : TimerSaved(t)
    \/ \E t \in 1..MaxRides : TimerStoreError(t)
    \/ \E s \in Sockets, r \in RideIds : AcceptRideStart(s, r)
    \/ \E c \in 1..MaxCalls : AcceptRideFound(c)
    \/ \E c \in 1..MaxCalls : AcceptRideSaved(c)
    \/ \E s \in Sockets, r \in RideIds : DeclineRideStart(s, r)
    \/ \E c \in 1..MaxCalls : DeclineRideFound(c)
    \/ \E c \in 1..MaxCalls : DeclineRideSaved(c)
    \/ \E c \in 1..MaxCalls : CallStoreError(c)
    \/ \E u \in Riders \cup {"d1"}, r \in RideIds : RestCancelFound(u, r)
    \/ \E c \in 1..MaxCalls : RestCancelSaved(c)
    \/ \E u \in Drivers \cup {"u1"}, r \in RideIds : RestEndFound(u, r)
    \/ \E c \in 1..MaxCalls : RestEndSaved(c)

Spec == Init /\ [][Next]_vars

(***************************************************************************)
(* Ride sessions: a ride is booked, accepted, paid, started and ended      *)
(* while driver d1 reports locations on socket s1 and socket s2 joins the  *)
(* ride room; startRide names d1 or d2 as the driver of the session.       *)
(***************************************************************************)
SessionPayloads ==
    { [driverId |-> "d1", latitude |-> 5991, longitude |-> 1075],
      [driverId |-> "d1", latitude |-> 0],
      [latitude |-> 5991, longitude |-> 1075] }

NextSession ==
    \/ DriverOnline("s1", [driverId |-> "d1"])
    \/ \E p \in SessionPayloads : DriverLocationUpdate("s1", p)
    \/ \E r \in RideIds : JoinRide("s2", r)
    \/ \E r \in RideIds, d \in Drivers : StartRide("s2", r, d, "u1")
    \/ \E r \in RideIds : EndRide("s2", r)
    \/ BookDriverRequest("u1", "d1")
    \/ \E b \in 1..MaxRides : BookDriverSaved(b)
    \/ \E r \in RideIds : AcceptRideStart("s1", r)
    \/ \E c \in 1..MaxCalls : AcceptRideFound(c)
    \/ \E c \in 1..MaxCalls : AcceptRideSaved(c)
    \/ \E r \in RideIds : WebhookStart(r)
    \/ \E c \in 1..MaxCalls : WebhookFound(c)
    \/ \E c \in 1..MaxCalls : WebhookSaved(c)
    \/ \E u \in Drivers, r \in RideIds : RestEndFound(u, r)
    \/ \E c \in 1..MaxCalls : RestEndSaved(c)

SpecSession == Init /\ [][NextSession]_vars

(***************************************************************************)
(* Live tracking alone: the session table, the ride rooms and the location *)
(* updates of both drivers, without the ride store.                        *)
(***************************************************************************)
TrackingPayloads ==
    SessionPayloads \cup { [driverId |-> "d2", latitude |-> 0, longitude |-> 0] }

NextTracking ==
    \/ \E a \in {<<"s1", "d1">>, <<"s2", "d2">>} : DriverOnline(a[1], [driverId |-> a[2]])
    \/ \E s \in Sockets, p \in TrackingPayloads : DriverLocationUpdate(s, p)
    \/ \E r \in RideIds : JoinRide("s2", r)
    \/ \E r \in RideIds, d \in Drivers : StartRide("s2", r, d, "u1")
    \/ \E r \in RideIds : EndRide("s2", r)
    \/ Disconnect("s1")

SpecTracking == Init /\ [][NextTracking]_vars

(***************************************************************************)
(* The open-ride pool: a ride is created open or booked to d1, d1 answers  *)
(* over its socket s1 or over REST, d2 over REST, the timer expires, and   *)
(* both drivers ask for the available rides.                               *)
(***************************************************************************)
NextOffers ==
    \/ DriverOnline("s1", [driverId |-> "d1"])
    \/ CreateRideRequest("u1")
    \/ \E b \in 1..MaxRides : CreateRideSaved(b)
    \/ BookDriverRequest("u1", "d1")
    \/ \E b \in 1..MaxRides : BookDriverSaved(b)
    \/ \E b \in 1..MaxRides : BookDriverCapture(b)
    \/ \E b \in 1..MaxRides : BookDriverEmit(b)
    \/ \E t \in 1..MaxRides : TimerFire(t)
    \/ \E t \in 1..MaxRides : TimerSaved(t)
    \/ \E r \in RideIds : AcceptRideStart("s1", r)
    \/ \E c \in 1..MaxCalls : AcceptRideFound(c)
    \/ \E c \in 1..MaxCalls : AcceptRideSaved(c)
    \/ \E r \in RideIds : DeclineRideStart("s1", r)
    \/ \E c \in 1..MaxCalls : DeclineRideFound(c)
    \/ \E c \in 1..MaxCalls : DeclineRideSaved(c)
    \/ \E u \in Drivers, r \in RideIds : RestAcceptFound(u, r)
    \/ \E c \in 1..MaxCalls : RestAcceptSaved(c)
    \/ \E u \in Drivers, r \in RideIds : RestDeclineFound(u, r)
    \/ \E c \in 1..MaxCalls : RestDeclineSaved(c)
    \/ \E u \in Drivers : GetAvailable(u)

SpecOffers == Init /\ [][NextOffers]_vars

(***************************************************************************)
(* The response window: d1 is booked and may answer, the rider may cancel, *)
(* the timer runs.  Store calls succeed; User.findById between the save of *)
(* the ride and setTimeout may reject.  An awaited call settles and a      *)
(* scheduled timer fires, so the continuations are weakly fair; whether a  *)
(* client sends anything is left open.                                     *)
(***************************************************************************)
NextWindow ==
    \/ DriverOnline("s1", [driverId |-> "d1"])
    \/ \E p \in RiderPayloads : RiderOnline("s2", p)
    \/ BookDriverRequest("u1", "d1")
    \/ \E b \in 1..MaxRides : BookDriverSaved(b)
    \/ \E b \in 1..MaxRides : BookDriverCapture(b)
    \/ \E b \in 1..MaxRides : BookDriverEmit(b)
    \/ \E b \in 1..MaxRides : BookDriverEmitFailed(b)
    \/ \E t \in 1..MaxRides : TimerFire(t)
    \/ \E t \in 1..MaxRides : TimerSaved(t)
    \/ \E r \in RideIds : AcceptRideStart("s1", r)
    \/ \E c \in 1..MaxCalls : AcceptRideFound(c)
    \/ \E c \in 1..MaxCalls : AcceptRideSaved(c)
    \/ \E r \in RideIds : DeclineRideStart("s1", r)
    \/ \E c \in 1..MaxCalls : DeclineRideFound(c)
    \/ \E c \in 1..MaxCalls : DeclineRideSaved(c)
    \/ \E r \in RideIds : RestCancelFound("u1", r)
    \/ \E c \in 1..MaxCalls : RestCancelSaved(c)

WindowFairness ==
    /\ \A b \in 1..MaxRides :
          /\ WF_vars(BookDriverSaved(b))
          /\ WF_vars(BookDriverCapture(b))
          /\ WF_vars(BookDriverEmit(b) \/ BookDriverEmitFailed(b))
    /\ \A t \in 1..MaxRides :
          /\ WF_vars(TimerFire(t))
          /\ WF_vars(TimerSaved(t))
    /\ \A c \in 1..MaxCalls :
          /\ WF_vars(AcceptRideFound(c))
          /\ WF_vars(AcceptRideSaved(c))
          /\ WF_vars(DeclineRideFound(c))
          /\ WF_vars(DeclineRideSaved(c))
          /\ WF_vars(RestCancelSaved(c))

SpecWindow == Init /\ [][NextWindow]_vars /\ WindowFairness

(***************************************************************************)
(* Properties of the ride state machine, checked under Spec.               *)
(***************************************************************************)
\* the positions of applied[r] that hold one of kinds
Decisions(r, kinds) == { i \in 1..Len(applied[r]) : applied[r][i] \in kinds }

OfferDecisions == {"acceptRide", "declineRide", "timer"}

\* C1: of the acceptRide events handled for one pending ride, however they
\* interleave, at most one persists the transition to accepted and emits
\* rideAccepted; every other one fails the guard.
C1_OneAcceptPersists ==
    \A r \in RideIds : Cardinality(Decisions(r, {"acceptRide"})) <= 1

\* C2: of an acceptRide, the declineRide events (a duplicate included) and
\* the timeout callback racing on one pending offer, at most one saves a
\* status change and emits its event.
C2_OneDecisionApplies ==
    \A r \in RideIds : Cardinality(Decisions(r, OfferDecisions)) <= 1

\* C3: a declineRide whose connection is bound to a driver other than the
\* ride's assignedDriver returns without changing the stored ride and without
\* emitting rideDeclined or rideDeclineAck.
C3_DeclineByOtherDriverRejected ==
    [][ \A c \in Slots :
          ( /\ calls[c].kind = "declineRide"
            /\ calls'[c] # calls[c]
            /\ calls[c].snap # NoDoc
            /\ calls[c].snap.assignedDriver # calls[c].driverId )
          => (rides' = rides /\ applied' = applied /\ sent' = {}) ]_vars

\* C4: a step of an acceptRide invocation changes the stored ride or emits
\* only when it is the save of an invocation whose read returned the stored
\* ride with status pending and assignedDriver equal to the driver bound to
\* the requesting socket; rideAccepted is emitted by no other step.
C4_AcceptOnlyUnderGuard ==
    [][ /\ \A c \in Slots :
             (calls'[c] # calls[c] /\ "acceptRide" \in {calls[c].kind, calls'[c].kind})
             => \/ rides' = rides /\ applied' = applied /\ sent' = {}
                \/ /\ calls[c].pc = "save"
                   /\ calls[c].snap.status = "pending"
                   /\ calls[c].snap.assignedDriver = calls[c].driverId
        /\ \A c \in Slots :
             (calls[c] = Idle /\ calls'[c].kind = "acceptRide")
             => /\ calls'[c].pc = "find"
                /\ calls'[c].driverId # NoDriver
                /\ \E i \in 1..Len(driverSocketMap) :
                      /\ driverSocketMap[i].socketId = calls'[c].socket
                      /\ driverSocketMap[i].driverId = calls'[c].driverId
        /\ \A c \in Slots :
             (calls[c].kind = "acceptRide" /\ calls[c].pc = "find" /\ calls'[c].pc = "save")
             => calls'[c].snap = rides[calls[c].ride]
        /\ (\E e \in sent' : e.event = "rideAccepted")
             => \E c \in Slots : /\ calls[c].kind = "acceptRide"
                                 /\ calls[c].pc = "save"
                                 /\ calls'[c] = Idle ]_vars

C4_AcceptApplied ==
    \E e \in sent : /\ e.event = "rideAccepted"
                    /\ rides[e.rideId].status = "accepted"
                    /\ rides[e.rideId].assignedDriver = e.driverId

\* C5: the timeout callback of a booking to driver D that finds the ride
\* still pending goes on to save, and its save leaves the ride with status
\* open, D among declinedDrivers and no assignedDriver.
C5_TimerOpensPendingRide ==
    [][ \A t \in 1..Len(timers) :
          LET r == timers[t].ride IN
          /\ (timers[t].pc = "scheduled" /\ timers'[t] # timers[t]
                /\ rides[r].status = "pending")
             => timers'[t].pc \in {"save", "error"}
          /\ (timers[t].pc = "save" /\ timers'[t].pc = "applied")
             => /\ timers[t].snap.status = "pending"
                /\ rides'[r].status = "open"
                /\ timers[t].driverId \in Elems(rides'[r].declinedDrivers)
                /\ rides'[r].assignedDriver = NoDriver ]_vars

C5_TimerApplied ==
    \E t \in 1..Len(timers) :
        /\ timers[t].pc = "applied"
        /\ applied[timers[t].ride] = <<"timer">>
        /\ rides[timers[t].ride].status = "open"

\* C6: a timeout callback that fires when the stored status is accepted,
\* open, cancelled or completed returns at once: it changes no field of any
\* ride and emits nothing, and a callback that has returned never acts again.
C6_TimerNoOpAfterDecision ==
    [][ \A t \in 1..Len(timers) :
          /\ (timers[t].pc = "scheduled" /\ timers'[t] # timers[t]
                /\ rides[timers[t].ride].status
                      \in {"accepted", "open", "cancelled", "completed"})
             => /\ timers'[t].pc \in {"noop", "error"}
                /\ rides' = rides
                /\ applied' = applied
                /\ sent' = {}
          /\ (timers[t].pc \in {"noop", "applied", "error"})
             => timers'[t] = timers[t] ]_vars

C6_TimerAfterAccept ==
    \E t \in 1..Len(timers) :
        /\ timers[t].pc = "noop"
        /\ rides[timers[t].ride].status = "accepted"

\* C7: the save of a book-driver request stores a ride with status pending,
\* a value the Ride schema accepts for status, and assignedDriver = D; the
\* request that answers 200 has scheduled exactly one timeout for the ride
\* and has pushed rideRequest to D's socket if D is bound to one.
C7_BookingPersistsPending ==
    [][ \A b \in 1..Len(bookings) :
          LET r == RideNames[b] IN
          /\ (bookings[b].pc = "save" /\ bookings'[b].pc = "notify")
             => /\ rides'[r].status = "pending"
                /\ rides'[r].status \in RideStatusEnum
                /\ rides'[r].assignedDriver = bookings[b].driverId
          /\ (bookings[b].pc # "done" /\ bookings'[b].pc = "done"
                /\ bookings'[b].response = 200)
             => /\ Cardinality({ t \in 1..Len(timers') : timers'[t].ride = r }) = 1
                /\ \A i \in 1..Len(driverSocketMap) :
                      driverSocketMap[i].driverId = bookings[b].driverId
                      => \E e \in sent' :
                            /\ e.event = "rideRequest"
                            /\ e.to = ToSocket(driverSocketMap[i].socketId) ]_vars

(***************************************************************************)
(* Properties of the presence registry, checked under SpecPresence.        *)
(***************************************************************************)
\* what the registry holds for driver d: membership, coordinate, binding
Entry(d) ==
    << d \in onlineDrivers,
       IF d \in DOMAIN driverLocations THEN {driverLocations[d]} ELSE {},
       MapGet(driverSocketMap, d) >>

Absent(d) == Entry(d) = <<FALSE, {}, NoSocket>>

\* C8: every driver in the reachable set is bound to a socket that has not
\* disconnected.
C8_ReachableDriversAreBound ==
    \A d \in onlineDrivers :
        \E i \in 1..Len(driverSocketMap) :
            /\ driverSocketMap[i].driverId = d
            /\ driverSocketMap[i].socketId \in Sockets \ gone

C8_ReachableAfterDisconnect ==
    /\ gone # {}
    /\ \E d \in onlineDrivers : MapGet(driverSocketMap, d) \in Sockets \ gone

\* C9 as stated: driverOffline for D and the disconnect of the socket D is
\* bound to remove D from the reachable set, its coordinate and its binding
\* and leave the entries of every other driver unchanged; no reply of a
\* proximity query names a driver that is not registered.
C9_RemovalLeavesEveryOtherDriver ==
    [][ /\ \A s \in Sockets, D \in Drivers :
             /\ DriverOffline(s, [driverId |-> D])
                => /\ Absent(D)'
                   /\ \A E \in Drivers \ {D} : Entry(E)' = Entry(E)
             /\ (Disconnect(s) /\ MapGet(driverSocketMap, D) = s)
                => /\ Absent(D)'
                   /\ \A E \in Drivers \ {D} : Entry(E)' = Entry(E)
        /\ \A D \in Drivers \ onlineDrivers' :
             \A e \in sent' : D \notin DOMAIN e.points ]_vars

\* C9: driverOffline for D removes D from the reachable set, its coordinate
\* and its binding and leaves every other driver's entries unchanged; the
\* disconnect of a socket removes every driver bound to it and leaves the
\* entries of the drivers bound to other sockets unchanged; no reply of a
\* proximity query names a driver that is not registered.
C9_RemovalLeavesOtherSockets ==
    [][ /\ \A s \in Sockets, D \in Drivers :
             /\ DriverOffline(s, [driverId |-> D])
                => /\ Absent(D)'
                   /\ \A E \in Drivers \ {D} : Entry(E)' = Entry(E)
             /\ (Disconnect(s) /\ MapGet(driverSocketMap, D) = s)
                => /\ Absent(D)'
                   /\ \A E \in Drivers :
                        MapGet(driverSocketMap, E) # s => Entry(E)' = Entry(E)
        /\ \A D \in Drivers \ onlineDrivers' :
             \A e \in sent' : D \notin DOMAIN e.points ]_vars

C9_RemovedBesideRegistered ==
    /\ gone # {}
    /\ \E D \in Drivers, E \in onlineDrivers :
          /\ Absent(D)
          /\ E \in DOMAIN driverLocations
          /\ MapGet(driverSocketMap, E) \notin gone

\* C10: driverSocketMap holds at most one socket per driverId; a driverOnline
\* for D from a socket makes that socket D's binding and addresses no event
\* to the socket it replaces; the disconnect of a socket D is not bound to
\* leaves D's membership, coordinate and binding unchanged.
C10_RebindingReplaces ==
    [][ /\ \A i, j \in 1..Len(driverSocketMap') :
             driverSocketMap'[i].driverId = driverSocketMap'[j].driverId => i = j
        /\ \A s \in Sockets, p \in DriverPayloads :
             (Has(p, "driverId") /\ DriverOnline(s, p))
             => /\ MapGet(driverSocketMap', p.driverId) = s
                /\ p.driverId \in onlineDrivers'
                /\ \A e \in sent' : e.to = ToAll
        /\ \A s \in Sockets, D \in onlineDrivers :
             (Disconnect(s) /\ MapGet(driverSocketMap, D) # s)
             => Entry(D)' = Entry(D) ]_vars

C10_StaleSocketGone ==
    \E e \in stale :
        /\ e[2] \in gone
        /\ e[1] \in onlineDrivers
        /\ MapGet(driverSocketMap, e[1]) \in Sockets \ gone

\* the payload carries both coordinate components (0 included)
Numeric(p) == "latitude" \in DOMAIN p /\ "longitude" \in DOMAIN p

\* the radius a query asks for, in metres: radiusKm, or 5 km when it has none
AskedRadius(q) == IF "radiusKm" \in DOMAIN q THEN q.radiusKm ELSE 5000

\* the registered drivers whose stored coordinate is within the asked radius
Covered(q) ==
    { d \in onlineDrivers \cap DOMAIN driverLocations :
        getDistanceKm(q.latitude, q.longitude, driverLocations[d].latitude,
                      driverLocations[d].longitude) <= AskedRadius(q) }

\* C11: a well-formed driverLocationUpdate for a driver that is not in the
\* reachable set leaves it reachable, bound to the reporting socket, with the
\* reported coordinate stored; every later proximity query whose radius
\* covers the stored coordinate of a reachable driver returns that driver.
C11_AutoRegisteredAndListed ==
    [][ /\ \A s \in Sockets, p \in DriverPayloads :
             ( /\ "driverId" \in DOMAIN p /\ Numeric(p)
               /\ p.driverId \notin onlineDrivers
               /\ DriverLocationUpdate(s, p) )
             => /\ p.driverId \in onlineDrivers'
                /\ MapGet(driverSocketMap', p.driverId) = s
                /\ p.driverId \in DOMAIN driverLocations'
                /\ driverLocations'[p.driverId] =
                      [latitude |-> p.latitude, longitude |-> p.longitude]
        /\ \A s \in Sockets, q \in QueryPayloads :
             (Numeric(q) /\ RequestNearbyDrivers(s, q))
             => \A d \in Covered(q) :
                  \E e \in sent' : e.to = ToSocket(s) /\ d \in DOMAIN e.points
        /\ \A q \in QueryPayloads :
             (Numeric(q) /\ GetDriversNearby(q))
             => \A d \in Covered(q) :
                  \E e \in sent' : e.to = ToHttp /\ d \in DOMAIN e.points ]_vars

\* C12: a driverOnline or a driverLocationUpdate that carries a driverId and
\* both coordinate components, 0 included, leaves the driver reachable with
\* exactly the carried coordinate stored: (0, 0) is stored as (0, 0).
C12_ZeroCoordinateStored ==
    [][ \A s \in Sockets, p \in DriverPayloads :
          ( /\ "driverId" \in DOMAIN p /\ Numeric(p)
            /\ (DriverOnline(s, p) \/ DriverLocationUpdate(s, p)) )
          => /\ p.driverId \in onlineDrivers'
             /\ p.driverId \in DOMAIN driverLocations'
             /\ driverLocations'[p.driverId] =
                   [latitude |-> p.latitude, longitude |-> p.longitude] ]_vars

C12_DriverAtZero ==
    \E d \in onlineDrivers :
        /\ d \in DOMAIN driverLocations
        /\ driverLocations[d] = [latitude |-> 0, longitude |-> 0]

\* C13: every requestNearbyDrivers that carries a latitude and a longitude,
\* 0 included, is answered with a driversUpdate to the requesting socket.
C13_NumericQueryAnswered ==
    [][ \A s \in Sockets, q \in QueryPayloads :
          (Numeric(q) /\ RequestNearbyDrivers(s, q))
          => \E e \in sent' : e.event = "driversUpdate" /\ e.to = ToSocket(s) ]_vars

\* C14: the reply of a proximity query, over the socket or over GET
\* /api/drivers/nearby, names exactly the reachable drivers that have a
\* stored coordinate within the asked radius (5 km when none is given).
C14_ReplyIsExactlyCovered ==
    [][ /\ \A s \in Sockets, q \in QueryPayloads :
             (Numeric(q) /\ RequestNearbyDrivers(s, q))
             => \A e \in sent' : DOMAIN e.points = Covered(q)
        /\ \A q \in QueryPayloads :
             (Numeric(q) /\ GetDriversNearby(q))
             => \A e \in sent' : DOMAIN e.points = Covered(q) ]_vars

C37_UpdateBindsReporter ==
    [][ \A s \in Sockets, p \in DriverPayloads :
          ( /\ Has(p, "driverId") /\ Has(p, "latitude") /\ Has(p, "longitude")
            /\ DriverLocationUpdate(s, p) )
          => MapGet(driverSocketMap', p.driverId) = s ]_vars

\* C38: in every state onlineDrivers is the key set of driverSocketMap and
\* holds every driver that has an entry in driverLocations.
C38_RegistriesAgree ==
    /\ onlineDrivers = MapKeys(driverSocketMap)
    /\ DOMAIN driverLocations \subseteq onlineDrivers

\* after a disconnect one driver is in all three registries, another in none
C38_OneRegisteredOneRemoved ==
    /\ gone # {}
    /\ \E d \in onlineDrivers, x \in Drivers \ onlineDrivers :
          /\ d \in DOMAIN driverLocations
          /\ d \in MapKeys(driverSocketMap)
          /\ x \notin DOMAIN driverLocations
          /\ x \notin MapKeys(driverSocketMap)

\* the centres with non-zero latitude and longitude, and the positive radii
NonZeroCentres == { pt \in Points : pt[1] # 0 /\ pt[2] # 0 }
PositiveRadii == {1000, DefaultRadius}

\* C39: in every state GET /api/drivers/nearby and requestNearbyDrivers
\* compute the same drivers with the same coordinates and distances, for
\* every non-zero centre and every positive radius.
C39_RestAndSocketNearbyAgree ==
    \A pt \in NonZeroCentres, rad \in PositiveRadii :
        NearbyRest(pt[1], pt[2], rad) = Nearby(pt[1], pt[2], rad)

\* after a disconnect, GET /api/drivers/nearby answered with a driver, the
\* same answer requestNearbyDrivers computes, while another driver is gone
\* from the registries
C39_RestAnswerAfterRemoval ==
    /\ gone # {}
    /\ Drivers \ onlineDrivers # {}
    /\ \E e \in sent, pt \in NonZeroCentres, rad \in PositiveRadii :
          /\ e.event = "200"
          /\ e.to = ToHttp
          /\ DOMAIN e.points # {}
          /\ e.points = NearbyRest(pt[1], pt[2], rad)
          /\ e.points = Nearby(pt[1], pt[2], rad)

\* C27: a requestNearbyDrivers, GET /api/drivers/nearby or debug-dump step
\* leaves onlineDrivers, driverLocations, driverSocketMap and activeRides
\* unchanged; what requestNearbyDrivers emits goes to the requesting socket
\* alone, what the two routes emit is the HTTP response.
C27_QueriesAreReadOnly ==
    [][ /\ \A s \in Sockets, p \in QueryPayloads :
             RequestNearbyDrivers(s, p)
             => /\ UNCHANGED <<onlineDrivers, driverLocations, driverSocketMap, activeRides>>
                /\ \A e \in sent' : e.event = "driversUpdate" /\ Receivers(e.to) = {s}
        /\ \A q \in QueryPayloads :
             GetDriversNearby(q)
             => /\ UNCHANGED <<onlineDrivers, driverLocations, driverSocketMap, activeRides>>
                /\ \A e \in sent' : e.to = ToHttp
        /\ GetDebugDriverLocations
             => /\ UNCHANGED <<onlineDrivers, driverLocations, driverSocketMap, activeRides>>
                /\ \A e \in sent' : e.to = ToHttp ]_vars

\* a query was answered with a driver while both sockets are connected
C27_RequesterAnswered ==
    \E e \in sent :
        /\ e.event = "driversUpdate"
        /\ e.to.room = "socket"
        /\ DOMAIN e.points # {}
        /\ gone = {}

(***************************************************************************)
(* Properties of the ride sessions, checked under SpecTracking (C15 to     *)
(* C17) and SpecSession.                                                   *)
(***************************************************************************)
\* C15: a driverLocationUpdate without driverId, or without latitude or
\* longitude, changes neither the reachable set, the stored coordinates, the
\* bindings nor the session table, and emits nothing.
C15_MalformedUpdateDropped ==
    [][ \A s \in Sockets, p \in TrackingPayloads :
          (~("driverId" \in DOMAIN p /\ Numeric(p)) /\ DriverLocationUpdate(s, p))
          => /\ onlineDrivers' = onlineDrivers
             /\ driverLocations' = driverLocations
             /\ driverSocketMap' = driverSocketMap
             /\ activeRides' = activeRides
             /\ sent' = {} ]_vars

C15_UnregisteredSessionDriver ==
    /\ sent = {}
    /\ "d1" \notin onlineDrivers
    /\ \E r \in DOMAIN activeRides :
          activeRides[r].driverId = "d1" /\ activeRides[r].status = "in_progress"

\* C16: a well-formed driverLocationUpdate of driver D emits exactly one
\* driversUpdate, to everyone, holding D's new point alone, and emits
\* carLocationUpdate to the room of ride R exactly when activeRides[R] has
\* driverId = D and status in_progress; it emits nothing else.
C16_UpdateForwardedToSessions ==
    [][ \A s \in Sockets, p \in TrackingPayloads :
          ("driverId" \in DOMAIN p /\ Numeric(p) /\ DriverLocationUpdate(s, p))
          => LET d == p.driverId
                 point == [x \in {d} |-> <<p.latitude, p.longitude>>]
                 here(r) == /\ r \in DOMAIN activeRides
                            /\ activeRides[r].driverId = d
                            /\ activeRides[r].status = "in_progress"
             IN  /\ { e \in sent' : e.event = "driversUpdate" }
                      = { PointsEvent("driversUpdate", ToAll, point) }
                 /\ \A r \in RideIds :
                      here(r) <=> \E e \in sent' : /\ e.event = "carLocationUpdate"
                                                   /\ e.to = ToRide(r)
                                                   /\ e.points = point
                 /\ \A e \in sent' :
                      \/ e.event = "driversUpdate"
                      \/ e.event = "carLocationUpdate" /\ e.to.room = "ride" ]_vars

C16_UpdateForwarded ==
    \E e \in sent : /\ e.event = "carLocationUpdate"
                    /\ e.to.room = "ride"
                    /\ e.to.id \in DOMAIN activeRides
                    /\ activeRides[e.to.id].status = "in_progress"

\* C17: joinRide adds the sending socket to the ride's room and, in the same
\* step, replies to it with carLocationUpdate holding the stored position of
\* the driver of the ride's session whenever that session and that position
\* exist.
C17_JoinReplaysPosition ==
    [][ \A s \in Sockets, r \in RideIds :
          JoinRide(s, r)
          => /\ <<s, ToRide(r)>> \in joined'
             /\ (r \in DOMAIN activeRides
                   /\ activeRides[r].driverId \in DOMAIN driverLocations)
                => \E e \in sent' :
                      /\ e.event = "carLocationUpdate"
                      /\ e.to = ToSocket(s)
                      /\ e.driverId = activeRides[r].driverId
                      /\ e.points = [x \in {activeRides[r].driverId} |->
                            <<driverLocations[activeRides[r].driverId].latitude,
                              driverLocations[activeRides[r].driverId].longitude>>] ]_vars

C17_JoinerToldPosition ==
    \E e \in sent, r \in RideIds :
        /\ e.event = "carLocationUpdate"
        /\ e.to.room = "socket"
        /\ <<e.to.id, ToRide(r)>> \in joined

\* C26: no step removes an entry of activeRides and every entry's status
\* is in_progress or completed; startRide leaves its ride's entry as the
\* payload's driver and rider with status in_progress and every other entry
\* as it was; endRide leaves the entries that exist, sets its ride's
\* existing entry to completed and changes no other.
C26_SessionTableOnlyGrows ==
    [][ /\ DOMAIN activeRides \subseteq DOMAIN activeRides'
        /\ \A r \in DOMAIN activeRides' :
             activeRides'[r].status \in {"in_progress", "completed"}
        /\ \A s \in Sockets, r \in RideIds, d \in Drivers, u \in Riders :
             StartRide(s, r, d, u)
             => /\ DOMAIN activeRides' = DOMAIN activeRides \cup {r}
                /\ activeRides'[r] = [driverId |-> d, riderId |-> u, status |-> "in_progress"]
                /\ \A q \in DOMAIN activeRides \ {r} : activeRides'[q] = activeRides[q]
        /\ \A s \in Sockets, r \in RideIds :
             EndRide(s, r)
             => /\ DOMAIN activeRides' = DOMAIN activeRides
                /\ r \in DOMAIN activeRides
                   => activeRides'[r] = [activeRides[r] EXCEPT !.status = "completed"]
                /\ \A q \in DOMAIN activeRides \ {r} : activeRides'[q] = activeRides[q] ]_vars

\* endRide has just completed a session
C26_SessionCompleted ==
    \E r \in DOMAIN activeRides, e \in sent :
        /\ activeRides[r].status = "completed"
        /\ e.event = "rideEnded"
        /\ e.rideId = r

\* C35: while a ride's session is completed, no step emits a
\* carLocationUpdate to the ride's room, and a joinRide for the ride is
\* sent no carLocationUpdate.
C35_NoPositionAfterEnd ==
    [][ \A r \in DOMAIN activeRides :
          activeRides[r].status = "completed"
          => /\ ~ \E e \in sent' : e.event = "carLocationUpdate" /\ e.to = ToRide(r)
             /\ \A s \in Sockets :
                   JoinRide(s, r) => ~ \E e \in sent' : e.event = "carLocationUpdate" ]_vars

\* C18: when the webhook of a confirmed payment has marked an accepted ride
\* paid, activeRides holds an in_progress entry for the ride with its
\* assigned driver, and rideStarted has been emitted to the driver's bound
\* socket and to the ride's room.
C18_PaymentStartsSession ==
    [][ \A c \in Slots :
          ( /\ calls[c].kind = "webhook" /\ calls[c].pc = "save"
            /\ calls'[c] = Idle
            /\ calls[c].snap.status = "accepted"
            /\ \E e \in sent' : e.event = "rideStarted" )
          => LET r == calls[c].ride
                 d == calls[c].snap.assignedDriver
             IN  /\ r \in DOMAIN activeRides'
                 /\ activeRides'[r].driverId = d
                 /\ activeRides'[r].status = "in_progress"
                 /\ \E e \in sent' : e.event = "rideStarted" /\ e.to = ToRide(r)
                 /\ MapGet(driverSocketMap, d) # NoSocket
                    => \E e \in sent' : /\ e.event = "rideStarted"
                                        /\ e.to = ToSocket(MapGet(driverSocketMap, d)) ]_vars

\* C19: the save of POST /:id/end by the assigned driver leaves the stored
\* status completed and the ride's session completed, and while the stored
\* status is completed no carLocationUpdate is emitted to the ride's room;
\* an end request by another driver changes nothing.
C19_EndStopsForwarding ==
    [][ /\ \A c \in Slots :
             (calls[c].kind = "end" /\ calls[c].pc = "save" /\ calls'[c] = Idle
                /\ applied' # applied)
             => LET r == calls[c].ride
                IN  /\ calls[c].driverId = calls[c].snap.assignedDriver
                    /\ rides'[r].status = "completed"
                    /\ r \in DOMAIN activeRides => activeRides'[r].status = "completed"
        /\ \A r \in DOMAIN rides :
             rides[r].status = "completed"
             => ~ \E e \in sent' : e.event = "carLocationUpdate" /\ e.to = ToRide(r)
        /\ \A u \in Drivers, r \in DOMAIN rides :
             (rides[r].assignedDriver # u /\ RestEndFound(u, r))
             => (calls' = calls /\ rides' = rides /\ activeRides' = activeRides
                 /\ sent' = {}) ]_vars

(***************************************************************************)
(* Properties of the REST routes, checked under Spec.                      *)
(***************************************************************************)
\* C20: a cancel request by the rider of a ride whose stored status is
\* pending or open goes on to save, and its save leaves the status
\* cancelled; a cancel request by anyone else, or for a ride in another
\* status, leaves the ride unchanged.
C20_RiderCancelsPendingOrOpen ==
    [][ /\ \A u \in Riders, r \in DOMAIN rides :
             ( /\ rides[r].rider = u
               /\ rides[r].status \in {"pending", "open"}
               /\ \E c \in Slots : calls[c] = Idle
               /\ RestCancelFound(u, r) )
             => \E c \in Slots : /\ calls[c] = Idle
                                 /\ calls'[c].kind = "cancel"
                                 /\ calls'[c].ride = r
                                 /\ calls'[c].pc = "save"
        /\ \A c \in Slots :
             (calls[c].kind = "cancel" /\ calls[c].pc = "save" /\ calls'[c] = Idle
                /\ applied' # applied)
             => rides'[calls[c].ride].status = "cancelled"
        /\ \A u \in Riders \cup Drivers, r \in DOMAIN rides :
             ( /\ rides[r].rider # u \/ rides[r].status \notin {"pending", "open"}
               /\ RestCancelFound(u, r) )
             => (calls' = calls /\ rides' = rides /\ sent' = {}) ]_vars

\* C21: when the save of a rider's cancel request resolves for a ride read
\* with an assigned driver, and that driver is bound to a connected socket,
\* a rideCancelled event emitted in that step reaches that socket.
C21_CancelReachesDriver ==
    [][ \A c \in Slots :
          LET d == calls[c].snap.assignedDriver IN
          ( /\ calls[c].kind = "cancel" /\ calls[c].pc = "save"
            /\ calls'[c] = Idle /\ applied' # applied
            /\ d # NoDriver
            /\ MapGet(driverSocketMap, d) \in Sockets \ gone )
          => \E e \in sent' : /\ e.event = "rideCancelled"
                              /\ MapGet(driverSocketMap, d) \in Receivers(e.to) ]_vars
\* C22: when the save of the timeout callback resolves, rideDeclined is
\* emitted to the ride's room, and if the offered driver is then bound to a
\* connected socket, rideRequestTimeout is emitted to that socket.
C22_TimeoutReachesCurrentSocket ==
    [][ \A t \in 1..Len(timers) :
          (timers[t].pc = "save" /\ timers'[t].pc = "applied")
          => LET r == timers[t].ride
                 d == timers[t].driverId
                 now == MapGet(driverSocketMap, d)
             IN  /\ \E e \in sent' : e.event = "rideDeclined" /\ e.to = ToRide(r)
                 /\ now \in Sockets \ gone
                    => \E e \in sent' : /\ e.event = "rideRequestTimeout"
                                        /\ now \in Receivers(e.to) ]_vars
\* C29: when acceptRide for a pending ride arrives on the socket its
\* assigned driver is bound to, the driver the handler resolves from the
\* socket, and carries to the guard, is the assigned driver.
C29_AcceptResolvesAssignedDriver ==
    [][ \A s \in Sockets, r \in DOMAIN rides :
          ( /\ rides[r].status = "pending"
            /\ rides[r].assignedDriver # NoDriver
            /\ MapGet(driverSocketMap, rides[r].assignedDriver) = s
            /\ AcceptRideStart(s, r) )
          => \E c \in Slots : /\ calls[c] = Idle
                              /\ calls'[c].kind = "acceptRide"
                              /\ calls'[c].driverId = rides[r].assignedDriver
                              /\ AcceptGuard(rides[r], calls'[c].driverId) ]_vars

\* C25: a step in which acceptRide, declineRide or the timeout callback
\* returns without a persisted transition (a store call rejected, or a
\* guard failed) emits nothing and changes neither the stored rides nor an
\* in-memory registry; rideAccepted, rideDeclined, rideDeclineAck and
\* rideRequestTimeout are only emitted by a step that persisted.
C25_StoreFailureHasNoEffect ==
    [][ /\ ( \/ \E c \in Slots : /\ calls[c].kind \in {"acceptRide", "declineRide"}
                                  /\ calls[c].pc \in {"find", "save"}
                                  /\ calls'[c] = Idle
                                  /\ applied' = applied
             \/ \E t \in 1..Len(timers) : /\ timers[t].pc \in {"scheduled", "save"}
                                          /\ timers'[t].pc \in {"error", "noop"} )
           => /\ sent' = {}
              /\ rides' = rides
              /\ UNCHANGED <<onlineDrivers, driverSocketMap, driverLocations, activeRides>>
        /\ \A e \in sent' :
             e.event \in {"rideAccepted", "rideDeclined", "rideDeclineAck", "rideRequestTimeout"}
             => applied' # applied ]_vars

\* the timeout callback failed on a store call and the ride is still pending
C25_TimerFailedRidePending ==
    \E t \in 1..Len(timers) :
        /\ timers[t].pc = "error"
        /\ timers[t].ride \in DOMAIN rides
        /\ rides[timers[t].ride].status = "pending"
        /\ applied[timers[t].ride] = << >>

\* C31: in every state, a ride whose stored status is pending or accepted
\* has an assigned driver.
C31_PendingOrAcceptedHasDriver ==
    \A r \in DOMAIN rides :
        rides[r].status \in {"pending", "accepted"} => rides[r].assignedDriver # NoDriver

\* C32: no step changes the stored status of a ride whose stored status is
\* cancelled or completed.
C32_CancelledCompletedTerminal ==
    [][ \A r \in DOMAIN rides :
          rides[r].status \in {"cancelled", "completed"}
          => rides'[r].status = rides[r].status ]_vars

\* C36 (under SpecWindow): when an accept, a decline or a timeout of a ride
\* is saved, every connected socket in the personal room of the ride's rider
\* is reached by a rideAccepted (accept) or rideDeclined (decline, timeout)
\* event of that step.
C36_RiderRoomToldOutcome ==
    [][ \A r \in DOMAIN rides, s \in Sockets \ gone :
          ( /\ <<s, ToRider(rides[r].rider)>> \in joined
            /\ Len(applied'[r]) = Len(applied[r]) + 1
            /\ applied'[r][Len(applied'[r])] \in OfferDecisions )
          => \E e \in sent' :
                /\ e.event = IF applied'[r][Len(applied'[r])] = "acceptRide"
                              THEN "rideAccepted" ELSE "rideDeclined"
                /\ e.rideId = r
                /\ s \in Receivers(e.to) ]_vars

\* C34 (under SpecWindow): a ride whose stored status is pending
\* eventually has another stored status.
C34_PendingEventuallyLeft ==
    \A r \in RideIds :
        (r \in DOMAIN rides /\ rides[r].status = "pending")
            ~> (r \in DOMAIN rides /\ rides[r].status # "pending")

(***************************************************************************)
(* Properties of the open-ride pool, checked under SpecOffers.             *)
(***************************************************************************)
\* C23: a listing returned to driver D names only rides that are open and
\* whose declinedDrivers lacks D; a decline by D or a timeout of D that is
\* saved leaves D in declinedDrivers, and no step takes a driver out of
\* declinedDrivers, so the ride is never again listed for D.
C23_ListingExcludesDecliners ==
    [][ /\ \A e \in sent' :
             e.event = "rides"
             => \A r \in DOMAIN e.points :
                   /\ r \in DOMAIN rides
                   /\ rides[r].status = "open"
                   /\ e.driverId \notin Elems(rides[r].declinedDrivers)
        /\ \A c \in Slots :
             ( /\ calls[c].kind \in {"declineRide", "restDecline"}
               /\ calls[c].pc = "save"
               /\ calls'[c] = Idle /\ applied' # applied )
             => calls[c].driverId \in Elems(rides'[calls[c].ride].declinedDrivers)
        /\ \A t \in 1..Len(timers) :
             (timers[t].pc = "save" /\ timers'[t].pc = "applied")
             => timers[t].driverId \in Elems(rides'[timers[t].ride].declinedDrivers)
        /\ \A r \in DOMAIN rides :
             Elems(rides[r].declinedDrivers) \subseteq Elems(rides'[r].declinedDrivers) ]_vars

\* an open ride that D declined is missing from the listing D just got
C23_DeclinedRideNotListed ==
    \E e \in sent, r \in DOMAIN rides :
        /\ e.event = "rides"
        /\ rides[r].status = "open"
        /\ e.driverId \in Elems(rides[r].declinedDrivers)
        /\ r \notin DOMAIN e.points
\* C24: no step takes a driver out of a ride's declinedDrivers, and after
\* every step no driver is in a ride's declinedDrivers twice.
C24_DeclinedDriversIsAppendOnlySet ==
    [][ \A r \in DOMAIN rides' :
          /\ r \in DOMAIN rides
             => Elems(rides[r].declinedDrivers) \subseteq Elems(rides'[r].declinedDrivers)
          /\ \A i, j \in 1..Len(rides'[r].declinedDrivers) :
                rides'[r].declinedDrivers[i] = rides'[r].declinedDrivers[j] => i = j ]_vars
\* C30: in every state, no ride's assignedDriver is among its
\* declinedDrivers.
C30_AssignedDriverNeverDeclined ==
    \A r \in DOMAIN rides :
        rides[r].assignedDriver # NoDriver
        => rides[r].assignedDriver \notin Elems(rides[r].declinedDrivers)
\* C33: a POST /:id/accept is answered with success only by a step that
\* finds the stored ride open and leaves it accepted with the requester as
\* assignedDriver, so of two requests for one open ride one succeeds.
C33_OneRestAcceptSucceeds ==
    [][ \A c \in Slots :
          ( /\ calls[c].kind = "restAccept" /\ calls[c].pc = "save"
            /\ calls'[c] = Idle
            /\ \E e \in sent' : e.event = "200" /\ e.rideId = calls[c].ride )
          => /\ rides[calls[c].ride].status = "open"
             /\ rides'[calls[c].ride].status = "accepted"
             /\ rides'[calls[c].ride].assignedDriver = calls[c].driverId ]_vars

=============================================================================
